---- MODULE Spec2Model ----
(***************************************************************************)
(* Model of PINNICLE/modeldata/data.py: the loader registry (DataBase),    *)
(* the ISSM loader (ISSMmdData) and the aggregate manager (Data).          *)
(*                                                                         *)
(* Python values are represented as follows:                               *)
(*   dict            a function whose DOMAIN is the key set                *)
(*   None / a value  <<>> / <<value>>                                      *)
(*   1-d array       a sequence indexed by vertex (1-based here, 0-based   *)
(*                   in numpy; only positions are shifted by one)          *)
(*   (n,2) array     a sequence of rows <<x, y>>                           *)
(*   (n,1) array     a sequence of rows <<value>>                          *)
(***************************************************************************)
EXTENDS Integers, Sequences, FiniteSets, TLC

VARIABLES mgr, parameters, data, X, sol, ret, io, nprep

vars == <<mgr, parameters, data, X, sol, ret, io, nprep>>

(* ---------------------------- bounds ----------------------------------- *)
\* vertices per mesh file
NumVertices == 3
\* largest number of configured sources
MaxSources == 2
\* cap on completed-or-failed Data.prepare_training_data calls (the
\* aggregate arrays grow with every call)
MaxPrepare == 2

(* ---------------------------- Python helpers --------------------------- *)
None == <<>>
Some(v) == <<v>>
IsNone(o) == Len(o) = 0
Val(o) == o[1]

EmptyDict == [k \in {} |-> 0]
Put(d, k, v) == [x \in (DOMAIN d) \cup {k} |-> IF x = k THEN v ELSE d[x]]

Min(a, b) == IF a < b THEN a ELSE b

\* np.sqrt on the perfect squares the mesh files produce
Sqrt(n) == CHOOSE r \in 0..n : r * r <= n /\ n < (r + 1) * (r + 1)

\* arr[idx] for an index array idx
Take(arr, idx) == [j \in 1..Len(idx) |-> arr[idx[j]]]
\* np.hstack((a.flatten()[:,None], b.flatten()[:,None]))
Hstack(a, b) == [j \in 1..Len(a) |-> <<a[j], b[j]>>]
\* a.flatten()[:,None]
Column(a) == [j \in 1..Len(a) |-> <<a[j]>>]
\* np.vstack((a, b))
Vstack(a, b) == a \o b

\* np.asarray(mask < 0).nonzero(): positions in ascending order
NonzeroNeg(mask) == SelectSeq([i \in 1..Len(mask) |-> i], LAMBDA i : mask[i] < 0)
\* np.asarray(mask > 0).nonzero()
NonzeroPos(mask) == SelectSeq([i \in 1..Len(mask) |-> i], LAMBDA i : mask[i] > 0)

\* np.random.choice called with replace=True
Choice_WithReplacement(m, size) == [1..size -> 1..m]

\* np.random.choice(m, size, replace=False): every sequence of `size`
\* pairwise distinct positions of range(m); choosing none of none is allowed
Choice(m, size) ==
    {s \in [1..size -> 1..m] : \A i, j \in 1..size : i # j => s[i] # s[j]}

(* ---------------------------- the files on disk ------------------------ *)
\* seconds per year (Constants.yts)
yts == 31536000

Vertices == 1..NumVertices

\* A complete ISSM model: md fields by path.  `shift` separates the
\* coordinates and values of different files, `ice` is the level set.
Model(shift, ice, dbc) ==
    [p \in {"mesh.x", "mesh.y", "inversion.vx_obs", "inversion.vy_obs",
            "geometry.surface", "geometry.thickness", "friction.C",
            "materials.rheology_B", "mask.ice_levelset",
            "mesh.vertexonboundary"} |->
        CASE p = "mesh.x" -> [v \in Vertices |-> shift + v]
          [] p = "mesh.y" -> [v \in Vertices |-> shift + 2 * v]
          [] p = "inversion.vx_obs" -> [v \in Vertices |-> yts * 3 * v]
          [] p = "inversion.vy_obs" -> [v \in Vertices |-> yts * 4 * v]
          [] p = "geometry.surface" -> [v \in Vertices |-> shift + 100 + v]
          [] p = "geometry.thickness" -> [v \in Vertices |-> shift + 200 + v]
          [] p = "friction.C" -> [v \in Vertices |-> shift + 300 + v]
          [] p = "materials.rheology_B" -> [v \in Vertices |-> shift + 400 + v]
          [] p = "mask.ice_levelset" -> ice
          [] p = "mesh.vertexonboundary" -> dbc]

Without(md, path) == [p \in (DOMAIN md) \ {path} |-> md[p]]

\* level sets: negative inside the ice, zero on the front, positive outside
IceOdd == [v \in Vertices |-> IF v \in {1, 3} THEN -1 ELSE IF v = 2 THEN 0 ELSE 1]
IceOne == [v \in Vertices |-> IF v = 2 THEN -1 ELSE 1]
IceLow == [v \in Vertices |-> IF v <= 3 THEN -1 ELSE 1]
IceFree == [v \in Vertices |-> IF v = 1 THEN 0 ELSE 1]
DbcLow == [v \in Vertices |-> IF v <= 2 THEN 1 ELSE 0]
DbcLast == [v \in Vertices |-> IF v = NumVertices THEN 1 ELSE 0]

ModelA == Model(0, IceOdd, DbcLow)
ModelB == Model(1000, IceOne, DbcLast)
ModelC == Model(2000, IceLow, DbcLast)
ModelD == Model(3000, IceFree, DbcLow)

Paths == {"a.mat", "b.mat", "c.mat", "d.mat", "nodbc.mat", "noice.mat",
          "noC.mat", "absent.mat"}

Disk ==
    [p \in Paths |->
        CASE p = "a.mat" -> [exists |-> TRUE, md |-> ModelA]
          [] p = "b.mat" -> [exists |-> TRUE, md |-> ModelB]
          [] p = "c.mat" -> [exists |-> TRUE, md |-> ModelC]
          [] p = "d.mat" -> [exists |-> TRUE, md |-> ModelD]
          [] p = "nodbc.mat" ->
                [exists |-> TRUE, md |-> Without(ModelA, "mesh.vertexonboundary")]
          [] p = "noice.mat" ->
                [exists |-> TRUE, md |-> Without(ModelB, "mask.ice_levelset")]
          [] p = "noC.mat" ->
                [exists |-> TRUE, md |-> Without(ModelA, "friction.C")]
          [] p = "absent.mat" -> [exists |-> FALSE, md |-> EmptyDict]]

(* ---------------------------- DataBase ---------------------------------- *)
\* DataBase.subclasses after the module is imported: ISSMmdData registered
\* itself under its _DATA_TYPE
subclasses == [t \in {"ISSM"} |-> "ISSMmdData"]

\* DataBase.__init__ (through ISSMmdData.__init__)
NewLoader(cls, params) ==
    [cls |-> cls, parameters |-> params,
     X_dict |-> EmptyDict, data_dict |-> EmptyDict, mask_dict |-> EmptyDict,
     X |-> None, sol |-> None,
     \* the local data_size of the latest prepare_training_data call
     data_size |-> None]

\* a create that falls back to the ISSM loader for an unknown tag
Create_DefaultsToISSM(data_type, params) ==
    [status |-> "ok",
     loader |-> Some(NewLoader(IF data_type \in DOMAIN subclasses
                               THEN subclasses[data_type] ELSE "ISSMmdData", params))]

\* DataBase.create
Create(data_type, params) ==
    IF data_type \notin DOMAIN subclasses
    THEN [status |-> "ValueError", loader |-> None]
    ELSE [status |-> "ok", loader |-> Some(NewLoader(subclasses[data_type], params))]

(* ---------------------------- ISSMmdData ------------------------------- *)
\* the md path each assignment of load_data reads, in statement order
LoadPath ==
    <<"mesh.x", "mesh.y", "inversion.vx_obs", "inversion.vy_obs",
      "geometry.surface", "geometry.thickness", "friction.C",
      "materials.rheology_B", "", "mask.ice_levelset", "mesh.vertexonboundary">>

\* the i-th assignment of load_data
LoadStep(ld, md, i) ==
    CASE i = 1 -> [ld EXCEPT !.X_dict = Put(@, "x", md["mesh.x"])]
      [] i = 2 -> [ld EXCEPT !.X_dict = Put(@, "y", md["mesh.y"])]
      [] i = 3 -> [ld EXCEPT !.data_dict =
                      Put(@, "u", [v \in DOMAIN md["inversion.vx_obs"] |->
                                      md["inversion.vx_obs"][v] \div yts])]
      [] i = 4 -> [ld EXCEPT !.data_dict =
                      Put(@, "v", [v \in DOMAIN md["inversion.vy_obs"] |->
                                      md["inversion.vy_obs"][v] \div yts])]
      [] i = 5 -> [ld EXCEPT !.data_dict = Put(@, "s", md["geometry.surface"])]
      [] i = 6 -> [ld EXCEPT !.data_dict = Put(@, "H", md["geometry.thickness"])]
      [] i = 7 -> [ld EXCEPT !.data_dict = Put(@, "C", md["friction.C"])]
      [] i = 8 -> [ld EXCEPT !.data_dict = Put(@, "B", md["materials.rheology_B"])]
      [] i = 9 -> [ld EXCEPT !.data_dict =
                      Put(@, "vel", [v \in DOMAIN ld.data_dict["u"] |->
                                        Sqrt(ld.data_dict["u"][v] * ld.data_dict["u"][v]
                                             + ld.data_dict["v"][v] * ld.data_dict["v"][v])])]
      [] i = 10 -> [ld EXCEPT !.mask_dict = Put(@, "icemask", md["mask.ice_levelset"])]
      [] i = 11 -> [ld EXCEPT !.mask_dict = Put(@, "DBC_mask", md["mesh.vertexonboundary"])]

RECURSIVE LoadFrom(_, _, _)
LoadFrom(ld, md, i) ==
    IF i > Len(LoadPath) THEN [status |-> "ok", loader |-> ld]
    ELSE IF LoadPath[i] # "" /\ LoadPath[i] \notin DOMAIN md
         THEN [status |-> "KeyError", loader |-> ld]
         ELSE LoadFrom(LoadStep(ld, md, i), md, i + 1)

\* ISSMmdData.load_data: mat73.loadmat fails on an absent file before the
\* loader is touched; a missing md field raises at the assignment reading it
LoadData(ld) ==
    LET file == Disk[ld.parameters.data_path] IN
    IF ~file.exists THEN [status |-> "OSError", loader |-> ld]
    ELSE LoadFrom(ld, file.md, 1)

\* a get_ice_indices that replaces only the blank name
GetIceIndices_BlankOnly(ld, mask_name) ==
    LET name == IF mask_name = "" THEN "icemask" ELSE mask_name IN
    IF name \notin DOMAIN ld.mask_dict
    THEN [status |-> "KeyError", value |-> <<>>]
    ELSE [status |-> "ok", value |-> NonzeroNeg(ld.mask_dict[name])]

\* ISSMmdData.get_ice_indices
GetIceIndices(ld, mask_name) ==
    LET name == IF mask_name = "" \/ mask_name \notin DOMAIN ld.mask_dict
                THEN "icemask" ELSE mask_name IN
    IF name \notin DOMAIN ld.mask_dict
    THEN [status |-> "KeyError", value |-> <<>>]
    ELSE [status |-> "ok", value |-> NonzeroNeg(ld.mask_dict[name])]

\* a get_ice_coordinates that answers an unloaded loader with no rows
GetIceCoordinates_EmptyWhenUnloaded(ld, mask_name) ==
    LET iice == GetIceIndices(ld, mask_name) IN
    IF iice.status # "ok" \/ "x" \notin DOMAIN ld.X_dict \/ "y" \notin DOMAIN ld.X_dict
    THEN [status |-> "ok", value |-> <<>>]
    ELSE [status |-> "ok",
          value |-> Hstack(Take(ld.X_dict["x"], iice.value),
                           Take(ld.X_dict["y"], iice.value))]

\* ISSMmdData.get_ice_coordinates
GetIceCoordinates(ld, mask_name) ==
    LET iice == GetIceIndices(ld, mask_name) IN
    IF iice.status # "ok" THEN iice
    ELSE IF "x" \notin DOMAIN ld.X_dict \/ "y" \notin DOMAIN ld.X_dict
         THEN [status |-> "KeyError", value |-> <<>>]
         ELSE [status |-> "ok",
               value |-> Hstack(Take(ld.X_dict["x"], iice.value),
                                Take(ld.X_dict["y"], iice.value))]

\* keys of data_dict that the loop of prepare_training_data samples at random
SampledKeys(ld, data_size) ==
    {k \in (DOMAIN ld.data_dict) \cap (DOMAIN data_size) : ~IsNone(data_size[k])}

\* whether prepare_training_data gets past its mask and coordinate lookups
CanPrepare(ld) ==
    /\ "icemask" \in DOMAIN ld.mask_dict
    /\ "DBC_mask" \in DOMAIN ld.mask_dict
    /\ {"x", "y"} \subseteq DOMAIN ld.X_dict

\* the outcomes of all np.random.choice calls of one prepare_training_data:
\* one index array per sampled key
Draws(ld, data_size) ==
    IF ~CanPrepare(ld) THEN {EmptyDict}
    ELSE LET max_data_size == Len(NonzeroNeg(ld.mask_dict["icemask"]))
             keys == SampledKeys(ld, data_size)
             all == UNION {Choice(max_data_size, n) : n \in 0..max_data_size}
         IN {idx \in [keys -> all] :
                \A k \in keys :
                    idx[k] \in Choice(max_data_size,
                                      Min(Val(data_size[k]), max_data_size))}

\* a prepare_training_data that keeps the dicts of the previous call
InitXSol_KeepsOld(ld) ==
    IF IsNone(ld.X) THEN [ld EXCEPT !.X = Some(EmptyDict), !.sol = Some(EmptyDict)]
    ELSE ld

\* "# initialize": prepare_training_data starts from empty X and sol
InitXSol(ld) == [ld EXCEPT !.X = Some(EmptyDict), !.sol = Some(EmptyDict)]

\* a loop that skips the fields whose data_size is None
PrepareKeys_SkipsNone(ld, data_size) == SampledKeys(ld, data_size)

\* the fields the loop of prepare_training_data adds to X and sol
PrepareKeys(ld, data_size) == (DOMAIN ld.data_dict) \cap (DOMAIN data_size)

\* boundary vertices restricted to the ice
BoundaryIndices_InsideIce(ld) ==
    SelectSeq(NonzeroPos(ld.mask_dict["DBC_mask"]),
              LAMBDA v : ld.mask_dict["icemask"][v] < 0)

\* idbc: the boundary vertices
BoundaryIndices(ld) == NonzeroPos(ld.mask_dict["DBC_mask"])

\* sol_temp built without the ice mask
SampledSol_Unmasked(ld, k, iice, idx) == Take(Column(ld.data_dict[k]), idx)

\* sol_temp[idx, :] for a sampled field
SampledSol(ld, k, iice, idx) == Take(Column(Take(ld.data_dict[k], iice)), idx)

\* ISSMmdData.prepare_training_data with the random outcomes idx
PrepareTrainingData(ld, arg, idx) ==
    LET data_size == IF IsNone(arg) THEN ld.parameters.data_size ELSE Val(arg)
        init == [InitXSol(ld) EXCEPT !.data_size = Some(data_size)]
    IN
    IF ~CanPrepare(ld) THEN [status |-> "KeyError", loader |-> init]
    ELSE
    LET iice == GetIceIndices(ld, "").value
        X_temp == Hstack(Take(ld.X_dict["x"], iice), Take(ld.X_dict["y"], iice))
        idbc == BoundaryIndices(ld)
        X_bc == Hstack(Take(ld.X_dict["x"], idbc), Take(ld.X_dict["y"], idbc))
        keys == PrepareKeys(ld, data_size)
        oldX == Val(init.X)
        oldSol == Val(init.sol)
        newX == [k \in (DOMAIN oldX) \cup keys |->
                    IF k \notin keys THEN oldX[k]
                    ELSE IF ~IsNone(data_size[k])
                    THEN Take(X_temp, idx[k])
                    ELSE X_bc]
        newSol == [k \in (DOMAIN oldSol) \cup keys |->
                    IF k \notin keys THEN oldSol[k]
                    ELSE IF ~IsNone(data_size[k])
                    THEN SampledSol(ld, k, iice, idx[k])
                    ELSE Column(Take(ld.data_dict[k], idbc))]
    IN [status |-> "ok",
        loader |-> [init EXCEPT !.X = Some(newX), !.sol = Some(newSol)]]

(* ---------------------------- Data -------------------------------------- *)
\* Data.__init__: the dict comprehension creates the loaders in the order of
\* parameters.data and is abandoned at the first create() that raises
RECURSIVE CreateAll(_, _, _)
CreateAll(params, i, made) ==
    IF i > Len(params) THEN [status |-> "ok", data |-> made]
    ELSE LET r == Create(params[i].source, params[i]) IN
         IF r.status # "ok" THEN [status |-> r.status, data |-> <<>>]
         ELSE CreateAll(params, i + 1, Append(made, Val(r.loader)))

\* a load_data that goes on with the next source after a failure
RECURSIVE LoadAll_ContinuesAfterFailure(_, _, _)
LoadAll_ContinuesAfterFailure(d, i, tried) ==
    IF i > Len(d) THEN [status |-> "ok", data |-> d, tried |-> tried]
    ELSE LET r == LoadData(d[i])
             rest == LoadAll_ContinuesAfterFailure([d EXCEPT ![i] = r.loader],
                                                   i + 1, Append(tried, i)) IN
         IF r.status # "ok" THEN [rest EXCEPT !.status = r.status] ELSE rest

\* Data.load_data: `tried` lists the loaders whose load_data was called
RECURSIVE LoadAll(_, _, _)
LoadAll(d, i, tried) ==
    IF i > Len(d) THEN [status |-> "ok", data |-> d, tried |-> tried]
    ELSE LET r == LoadData(d[i])
             d2 == [d EXCEPT ![i] = r.loader] IN
         IF r.status # "ok"
         THEN [status |-> r.status, data |-> d2, tried |-> Append(tried, i)]
         ELSE LoadAll(d2, i + 1, Append(tried, i))

\* the merge loop of Data.prepare_training_data for one loader's dict
Merge(agg, part) ==
    [k \in (DOMAIN agg) \cup (DOMAIN part) |->
        IF k \notin DOMAIN part THEN agg[k]
        ELSE IF k \notin DOMAIN agg THEN part[k]
        ELSE Vstack(agg[k], part[k])]

\* Data.prepare_training_data from loader i on; idxs[i] are loader i's
\* random outcomes
RECURSIVE PrepareAll(_, _, _, _, _)
PrepareAll(d, i, x, s, idxs) ==
    IF i > Len(d) THEN [status |-> "ok", data |-> d, X |-> x, sol |-> s]
    ELSE LET r == PrepareTrainingData(d[i], None, idxs[i])
             d2 == [d EXCEPT ![i] = r.loader] IN
         IF r.status # "ok"
         THEN [status |-> r.status, data |-> d2, X |-> x, sol |-> s]
         ELSE PrepareAll(d2, i + 1, Merge(x, Val(r.loader.X)),
                         Merge(s, Val(r.loader.sol)), idxs)

\* Data.get_ice_coordinates: the list comprehension stops at the first
\* loader that raises; np.vstack of no array at all raises ValueError
RECURSIVE IceCoordinatesAll(_, _, _, _)
IceCoordinatesAll(d, i, mask_name, acc) ==
    IF i > Len(d)
    THEN IF Len(d) = 0 THEN [status |-> "ValueError", value |-> <<>>]
         ELSE [status |-> "ok", value |-> acc]
    ELSE LET r == GetIceCoordinates(d[i], mask_name) IN
         IF r.status # "ok" THEN r
         ELSE IceCoordinatesAll(d, i + 1, mask_name, Vstack(acc, r.value))

(* ---------------------------- inputs ----------------------------------- *)
\* a requested count no mesh can satisfy
Big == NumVertices + 2

DsNone == EmptyDict
DsBc == [k \in {"u", "C"} |-> IF k = "u" THEN Some(1) ELSE None]
DsBig == [k \in {"u", "H", "foo"} |-> IF k = "u" THEN Some(Big) ELSE Some(1)]
DsTwo == [k \in {"v", "H"} |-> IF k = "v" THEN Some(2) ELSE None]

DataSizes == {DsNone, DsBc, DsBig, DsTwo}

Source(tag, path, ds) == [source |-> tag, data_path |-> path, data_size |-> ds]

\* the sources a multi-source configuration is drawn from
DataSources ==
    {Source("ISSM", "a.mat", DsBc), Source("ISSM", "b.mat", DsBig),
     Source("ISSM", "nodbc.mat", DsBc), Source("ISSM", "absent.mat", DsBig),
     Source("FOO", "a.mat", DsBc)}

\* the sources a single-loader configuration is drawn from
LoaderSources ==
    {Source("ISSM", p, ds) : p \in Paths, ds \in DataSizes}

MaskNames == {"", "icemask", "DBC_mask", "bedmask"}

\* the mask names the manager-level runs ask for
DataMaskNames == {"", "DBC_mask"}

(* ---------------------------- actions ---------------------------------- *)
InitCommon ==
    /\ mgr = "none"
    /\ data = <<>>
    /\ X = EmptyDict
    /\ sol = EmptyDict
    /\ ret = [op |-> "none"]
    /\ io = {}
    /\ nprep = 0

Init ==
    /\ parameters \in UNION {[1..n -> DataSources] : n \in 1..MaxSources}
    /\ InitCommon

InitLoader ==
    /\ parameters \in [1..1 -> LoaderSources]
    /\ InitCommon

\* experiment code: Data(parameters)
DataInit ==
    /\ mgr = "none"
    /\ LET r == CreateAll(parameters, 1, <<>>) IN
        /\ mgr' = IF r.status = "ok" THEN "constructed" ELSE "failed"
        /\ data' = r.data
        /\ ret' = [op |-> "Data.__init__", status |-> r.status]
    /\ X' = EmptyDict
    /\ sol' = EmptyDict
    /\ UNCHANGED <<parameters, io, nprep>>

\* Data.load_data()
DataLoadData ==
    /\ mgr = "constructed"
    /\ LET r == LoadAll(data, 1, <<>>) IN
        /\ data' = r.data
        /\ io' = io \cup {data[r.tried[j]].parameters.data_path : j \in 1..Len(r.tried)}
        /\ ret' = [op |-> "Data.load_data", status |-> r.status, tried |-> r.tried]
    /\ UNCHANGED <<mgr, parameters, X, sol, nprep>>

\* data[i].load_data()
LoaderLoadData(i) ==
    /\ mgr = "constructed"
    /\ LET r == LoadData(data[i]) IN
        /\ data' = [data EXCEPT ![i] = r.loader]
        /\ io' = io \cup {data[i].parameters.data_path}
        /\ ret' = [op |-> "load_data", target |-> i, status |-> r.status]
    /\ UNCHANGED <<mgr, parameters, X, sol, nprep>>

\* Data.prepare_training_data()
DataPrepareTrainingData ==
    /\ mgr = "constructed"
    /\ nprep < MaxPrepare
    /\ \E idxs \in [DOMAIN data ->
                      UNION {Draws(data[i], data[i].parameters.data_size) :
                                i \in DOMAIN data}] :
        /\ \A i \in DOMAIN data :
              idxs[i] \in Draws(data[i], data[i].parameters.data_size)
        /\ LET r == PrepareAll(data, 1, X, sol, idxs) IN
            /\ data' = r.data
            /\ X' = r.X
            /\ sol' = r.sol
            /\ ret' = [op |-> "Data.prepare_training_data", status |-> r.status]
    /\ nprep' = nprep + 1
    /\ UNCHANGED <<mgr, parameters, io>>

\* data[i].prepare_training_data(arg)
LoaderPrepareTrainingData(i, arg) ==
    /\ mgr = "constructed"
    /\ LET data_size == IF IsNone(arg) THEN data[i].parameters.data_size ELSE Val(arg) IN
       \E idx \in Draws(data[i], data_size) :
        LET r == PrepareTrainingData(data[i], arg, idx) IN
            /\ data' = [data EXCEPT ![i] = r.loader]
            /\ ret' = [op |-> "prepare_training_data", target |-> i,
                       status |-> r.status, arg |-> arg, idx |-> idx,
                       before |-> IF IsNone(data[i].X) THEN {}
                                  ELSE DOMAIN Val(data[i].X)]
    /\ UNCHANGED <<mgr, parameters, X, sol, io, nprep>>

\* data[i].get_ice_indices(mask_name)
LoaderGetIceIndices(i, mask_name) ==
    /\ mgr = "constructed"
    /\ LET r == GetIceIndices(data[i], mask_name) IN
        ret' = [op |-> "get_ice_indices", target |-> i, mask_name |-> mask_name,
                status |-> r.status, value |-> r.value]
    /\ UNCHANGED <<mgr, parameters, data, X, sol, io, nprep>>

\* data[i].get_ice_coordinates(mask_name)
LoaderGetIceCoordinates(i, mask_name) ==
    /\ mgr = "constructed"
    /\ LET r == GetIceCoordinates(data[i], mask_name) IN
        ret' = [op |-> "get_ice_coordinates", target |-> i, mask_name |-> mask_name,
                status |-> r.status, value |-> r.value]
    /\ UNCHANGED <<mgr, parameters, data, X, sol, io, nprep>>

\* Data.get_ice_coordinates(mask_name)
DataGetIceCoordinates(mask_name) ==
    /\ mgr = "constructed"
    /\ LET r == IceCoordinatesAll(data, 1, mask_name, <<>>) IN
        ret' = [op |-> "Data.get_ice_coordinates", mask_name |-> mask_name,
                status |-> r.status, value |-> r.value]
    /\ UNCHANGED <<mgr, parameters, data, X, sol, io, nprep>>

\* the manager driven through its own methods, with loaders also loaded one
\* by one
Next ==
    \/ DataInit
    \/ DataLoadData
    \/ \E i \in DOMAIN data : LoaderLoadData(i)
    \/ DataPrepareTrainingData

Spec == Init /\ [][Next]_vars

\* the lifecycle of the loaders of a manager: loading, then the calls that
\* need loaded data, in any order
NextLife ==
    \/ DataInit
    \/ DataLoadData
    \/ \E i \in DOMAIN data : LoaderLoadData(i)
    \/ \E i \in DOMAIN data : LoaderPrepareTrainingData(i, None)
    \/ \E i \in DOMAIN data : LoaderGetIceCoordinates(i, "")
    \/ \E m \in DataMaskNames : DataGetIceCoordinates(m)

SpecLife == Init /\ [][NextLife]_vars

\* one loader driven through its own methods
NextLoader ==
    \/ DataInit
    \/ \E i \in DOMAIN data : LoaderLoadData(i)
    \/ \E i \in DOMAIN data, a \in {None} \cup {Some(ds) : ds \in DataSizes} :
          LoaderPrepareTrainingData(i, a)
    \/ \E i \in DOMAIN data, m \in MaskNames : LoaderGetIceIndices(i, m)
    \/ \E i \in DOMAIN data, m \in MaskNames : LoaderGetIceCoordinates(i, m)

SpecLoader == InitLoader /\ [][NextLoader]_vars

(* ---------------------------- what the files hold ----------------------- *)
\* The expectations below are read off the files, not off the loaders.
FieldNames == {"u", "v", "s", "H", "C", "B", "vel"}

Md(i) == Disk[parameters[i].data_path].md

FileError(i) ==
    IF ~Disk[parameters[i].data_path].exists THEN "OSError"
    ELSE IF (DOMAIN ModelA) \subseteq DOMAIN Md(i) THEN "ok" ELSE "KeyError"

Coord(i, v) == <<Md(i)["mesh.x"][v], Md(i)["mesh.y"][v]>>

FieldValue(i, k, v) ==
    CASE k = "u" -> Md(i)["inversion.vx_obs"][v] \div yts
      [] k = "v" -> Md(i)["inversion.vy_obs"][v] \div yts
      [] k = "s" -> Md(i)["geometry.surface"][v]
      [] k = "H" -> Md(i)["geometry.thickness"][v]
      [] k = "C" -> Md(i)["friction.C"][v]
      [] k = "B" -> Md(i)["materials.rheology_B"][v]
      [] k = "vel" -> 5 * v

IceSet(i) == {v \in Vertices : Md(i)["mask.ice_levelset"][v] < 0}
DbcSet(i) == {v \in Vertices : Md(i)["mesh.vertexonboundary"][v] > 0}

Ascending(S) == SelectSeq([v \in Vertices |-> v], LAMBDA v : v \in S)

\* load_data has run to its last statement
Loaded(ld) == "DBC_mask" \in DOMAIN ld.mask_dict
\* load_data has stored the ice mask
HasIceMask(ld) == "icemask" \in DOMAIN ld.mask_dict

\* the data_size in effect for the loader call recorded in ret
Effective ==
    IF IsNone(ret.arg) THEN parameters[ret.target].data_size ELSE Val(ret.arg)

Rows(d, k) == IF k \in DOMAIN d THEN Len(d[k]) ELSE 0

RECURSIVE SumRowsX(_, _)
SumRowsX(i, k) ==
    IF i = 0 THEN 0
    ELSE SumRowsX(i - 1, k)
         + (IF IsNone(data[i].X) THEN 0 ELSE Rows(Val(data[i].X), k))

RECURSIVE SumRowsSol(_, _)
SumRowsSol(i, k) ==
    IF i = 0 THEN 0
    ELSE SumRowsSol(i - 1, k)
         + (IF IsNone(data[i].sol) THEN 0 ELSE Rows(Val(data[i].sol), k))

PrepareOk == ret.op = "prepare_training_data" /\ ret.status = "ok"

(* ---------------------------- claims ------------------------------------ *)

\* C1: after every completed Data.prepare_training_data call, first or
\* repeated, the aggregate X[k] and sol[k] have as many rows as the owned
\* loaders hold for k after that call, summed; loaders without k add nothing.
C1_AggregateRowsAreLoaderSum ==
    (ret.op = "Data.prepare_training_data" /\ ret.status = "ok") =>
        \A k \in FieldNames \cup (DOMAIN X) \cup (DOMAIN sol) :
            /\ Rows(X, k) = SumRowsX(Len(data), k)
            /\ Rows(sol, k) = SumRowsSol(Len(data), k)

\* C2: for an integer count n > 0 the loader selects min(n, M) pairwise
\* distinct ice vertices, M the number of vertices with icemask < 0; X[k] and
\* sol[k] have min(n, M) rows, and with n >= M every ice vertex is taken once.
C2_SampleIsDistinctAndClamped ==
    PrepareOk =>
        LET i == ret.target
            M == Cardinality(IceSet(i))
            ice == {Coord(i, v) : v \in IceSet(i)}
        IN \A k \in FieldNames \cap (DOMAIN Effective) :
            (~IsNone(Effective[k]) /\ Val(Effective[k]) > 0) =>
                LET n == Val(Effective[k])
                    xs == Val(data[i].X)[k]
                    taken == {xs[j] : j \in 1..Len(xs)}
                IN /\ Len(xs) = Min(n, M)
                   /\ Len(Val(data[i].sol)[k]) = Min(n, M)
                   /\ Len(ret.idx[k]) = Min(n, M)
                   /\ \A a, b \in 1..Len(ret.idx[k]) :
                         a # b => ret.idx[k][a] # ret.idx[k][b]
                   /\ taken \subseteq ice
                   /\ Cardinality(taken) = Min(n, M)
                   /\ (n >= M => taken = ice)

C2_Witness ==
    /\ PrepareOk
    /\ parameters[1].data_path = "c.mat"
    /\ ret.arg = Some(DsBig)
    /\ Len(Val(data[1].X)["u"]) = 3

\* C3: after a loader's prepare_training_data the keys of X and of sol are
\* exactly the fields present in both data_dict and data_size.
C3_KeysAreRequestedFields ==
    PrepareOk =>
        LET i == ret.target IN
            /\ DOMAIN Val(data[i].X) = FieldNames \cap (DOMAIN Effective)
            /\ DOMAIN Val(data[i].sol) = FieldNames \cap (DOMAIN Effective)

C3_Witness ==
    /\ PrepareOk
    /\ "foo" \in DOMAIN Effective
    /\ DOMAIN Val(data[ret.target].X) = {"u", "H"}

\* rows j of x and s are the coordinates and the field-k value of one vertex
\* of one of the sources in `from`
SameVertex(from, k, x, s, j) ==
    \E i \in from :
        /\ FileError(i) = "ok"
        /\ \E v \in Vertices :
              x[j] = Coord(i, v) /\ s[j] = <<FieldValue(i, k, v)>>

RowAligned(from, x, s) ==
    /\ DOMAIN x = DOMAIN s
    /\ \A k \in DOMAIN x :
          /\ Len(x[k]) = Len(s[k])
          /\ \A j \in 1..Len(x[k]) : SameVertex(from, k, x[k], s[k], j)

\* C4: in every loader and in the aggregate, row i of X[k] is the (x, y)
\* coordinate of the source vertex whose field-k value is row i of sol[k].
C4_RowsAligned ==
    /\ \A i \in DOMAIN data :
          ~IsNone(data[i].X) => RowAligned({i}, Val(data[i].X), Val(data[i].sol))
    /\ RowAligned(DOMAIN data, X, sol)

C4_Witness ==
    /\ ret.op = "Data.prepare_training_data"
    /\ ret.status = "ok"
    /\ nprep = 2
    /\ Len(data) = 2
    /\ parameters[1].data_path # parameters[2].data_path
    /\ Rows(X, "u") >= 4

\* the loader held field k as a boundary field before the step
HeldAsBoundary(ld, k) ==
    /\ ~IsNone(ld.X)
    /\ ~IsNone(ld.data_size)
    /\ k \in DOMAIN Val(ld.X)
    /\ k \in DOMAIN Val(ld.data_size)
    /\ IsNone(Val(ld.data_size)[k])

\* C5: a field whose data_size is None gets the coordinates and the values of
\* all vertices with DBC_mask > 0, in vertex order, whatever the ice mask and
\* the random choices are; a later call leaves such a field as it was.
C5_BoundaryFieldsAreDeterministic ==
    [][(ret'.op = "prepare_training_data" /\ ret'.status = "ok") =>
        LET i == ret'.target
            eff == IF IsNone(ret'.arg) THEN parameters[i].data_size ELSE Val(ret'.arg)
            bc == Ascending(DbcSet(i))
        IN \A k \in FieldNames \cap (DOMAIN eff) :
            IsNone(eff[k]) =>
                /\ Val(data'[i].X)[k] = [j \in 1..Len(bc) |-> Coord(i, bc[j])]
                /\ Val(data'[i].sol)[k] = [j \in 1..Len(bc) |-> <<FieldValue(i, k, bc[j])>>]
                /\ HeldAsBoundary(data[i], k) =>
                      /\ Val(data'[i].X)[k] = Val(data[i].X)[k]
                      /\ Val(data'[i].sol)[k] = Val(data[i].sol)[k]]_vars

C5_Witness ==
    /\ PrepareOk
    /\ ret.arg = Some(DsTwo)
    /\ ret.before = {"v", "H"}
    /\ Len(Val(data[ret.target].X)["H"]) = 2
    /\ ret.idx["v"] = <<2, 1>>

\* the rows a call must produce for a field requested with `size`
ExpectedRows(i, size) ==
    IF IsNone(size) THEN Cardinality(DbcSet(i))
    ELSE Min(Val(size), Cardinality(IceSet(i)))

\* C6: every loader prepare_training_data call replaces X and sol: they hold
\* only fields of the data_size in effect (the argument, or
\* parameters.data_size when the argument is None), with the rows of this
\* call alone; no earlier key survives.
C6_PrepareReplaces ==
    ret.op = "prepare_training_data" =>
        LET i == ret.target
            x == Val(data[i].X)
            s == Val(data[i].sol)
        IN /\ ~IsNone(data[i].X) /\ ~IsNone(data[i].sol)
           /\ data[i].data_size = Some(Effective)
           /\ DOMAIN x \subseteq DOMAIN Effective
           /\ DOMAIN s \subseteq DOMAIN Effective
           /\ \A k \in ret.before \ (DOMAIN Effective) :
                 k \notin DOMAIN x /\ k \notin DOMAIN s
           /\ \A k \in DOMAIN x : Len(x[k]) = ExpectedRows(i, Effective[k])
           /\ \A k \in DOMAIN s : Len(s[k]) = ExpectedRows(i, Effective[k])
           /\ ret.status # "ok" => (DOMAIN x = {} /\ DOMAIN s = {})

C6_Witness ==
    /\ PrepareOk
    /\ ~IsNone(ret.arg)
    /\ ret.before \ (DOMAIN Val(data[ret.target].X)) # {}
    /\ DOMAIN Val(data[ret.target].X) # {}

\* C7: create returns a new instance of the class registered under the tag
\* and raises for an unregistered tag; Data with such a source fails at
\* construction, owning no loader, before any file is read.
C7_UnknownTagFailsAtConstruction ==
    mgr # "none" =>
        /\ (mgr = "failed") =
              (\E i \in DOMAIN parameters : parameters[i].source # "ISSM")
        /\ mgr = "failed" =>
              /\ data = <<>>
              /\ io = {}
              /\ ret = [op |-> "Data.__init__", status |-> "ValueError"]
        /\ mgr = "constructed" =>
              /\ Len(data) = Len(parameters)
              /\ \A i \in DOMAIN data :
                    /\ data[i].cls = "ISSMmdData"
                    /\ data[i].parameters = parameters[i]
        /\ ret.op = "Data.__init__" =>
              /\ io = {}
              /\ \A i \in DOMAIN data :
                    /\ IsNone(data[i].X)
                    /\ DOMAIN data[i].mask_dict = {}

C7_Witness ==
    /\ mgr = "failed"
    /\ Len(parameters) = 2
    /\ parameters[1].source = "ISSM"

\* C8: Data.load_data loads the sources one at a time in configured order;
\* the first failure is the call's error, no later source is tried, and the
\* sources before it are loaded.
C8_LoadStopsAtFirstFailure ==
    ret.op = "Data.load_data" =>
        LET n == Len(ret.tried) IN
            /\ n >= 1
            /\ ret.tried = [j \in 1..n |-> j]
            /\ \A j \in 1..(n - 1) : FileError(j) = "ok" /\ Loaded(data[j])
            /\ ret.status = FileError(n)
            /\ ret.status = "ok" => (n = Len(data) /\ Loaded(data[n]))
            /\ ret.status # "ok" => ~Loaded(data[n])
            /\ \A j \in 1..n : data[j].parameters.data_path \in io

C8_Witness ==
    /\ ret.op = "Data.load_data"
    /\ ret.status = "OSError"
    /\ ret.tried = <<1, 2>>
    /\ Loaded(data[1])

\* C9: on a loaded loader get_ice_indices with a blank name or a name that is
\* no key of mask_dict returns the vertices with icemask < 0; with the name of
\* a stored mask it returns the vertices where that mask is < 0.
C9_MaskNameFallsBackToIceMask ==
    (ret.op = "get_ice_indices" /\ Loaded(data[ret.target])) =>
        LET i == ret.target
            mask == IF ret.mask_name = "DBC_mask"
                    THEN Md(i)["mesh.vertexonboundary"]
                    ELSE Md(i)["mask.ice_levelset"]
        IN /\ ret.status = "ok"
           /\ ret.value = Ascending({v \in Vertices : mask[v] < 0})

C9_Witness ==
    /\ ret.op = "get_ice_indices"
    /\ Loaded(data[ret.target])
    /\ ret.mask_name = "bedmask"
    /\ ret.value = <<1, 3>>

\* C10 as stated: get_ice_coordinates and prepare_training_data on a loader
\* whose load_data has never completed fail with a missing-key error, and
\* Data.get_ice_coordinates fails with it as soon as one owned loader is
\* unloaded.
C10_UnloadedAlwaysFails ==
    /\ (ret.op = "get_ice_coordinates" /\ ~Loaded(data[ret.target])) =>
          ret.status = "KeyError"
    /\ (ret.op = "prepare_training_data" /\ ~Loaded(data[ret.target])) =>
          ret.status = "KeyError"
    /\ (ret.op = "Data.get_ice_coordinates"
          /\ \E i \in DOMAIN data : ~Loaded(data[i])) =>
          ret.status = "KeyError"

\* C10 amended: get_ice_coordinates fails with a missing-key error on a
\* loader that holds no ice mask (load_data never called, or failed before it
\* stored the mask), prepare_training_data fails with it on a loader whose
\* load_data has never completed, and Data.get_ice_coordinates fails with it
\* as soon as one owned loader holds no ice mask, whatever the others hold.
C10_FailsWithoutIceMask ==
    /\ (ret.op = "get_ice_coordinates" /\ ~HasIceMask(data[ret.target])) =>
          ret.status = "KeyError"
    /\ (ret.op = "prepare_training_data" /\ ~Loaded(data[ret.target])) =>
          ret.status = "KeyError"
    /\ (ret.op = "Data.get_ice_coordinates"
          /\ \E i \in DOMAIN data : ~HasIceMask(data[i])) =>
          ret.status = "KeyError"

C10_Witness ==
    /\ ret.op = "Data.get_ice_coordinates"
    /\ ret.status = "KeyError"
    /\ Len(data) = 2
    /\ Loaded(data[1])
    /\ ~HasIceMask(data[2])

====
